---- MODULE Spec2Model ----
(***************************************************************************)
(* ExpenseScreen (src/ExpenseScreen.js): a React Native screen over an     *)
(* expo-sqlite table `expenses`.  The model has two parts:                 *)
(*   - the render-time aggregation (filtered, total, catTotals) as pure    *)
(*     operators over the snapshot `expenses`, the selector `filter`, the  *)
(*     clock and the device's time zone;                                   *)
(*   - the screen as a state machine: form state, the asynchronous         *)
(*     persistence calls in flight, and the table itself.                  *)
(* Time is counted in whole hours since 1970-01-01T00:00Z.  A "YYYY-MM-DD" *)
(* string is the record [y, m, d].  A text typed in the category or note   *)
(* field is a sequence of one-character strings.  A JavaScript number is a *)
(* record [nan, neg, hi, lo] standing for (hi * 2^30 + lo) * 2^-56.        *)
(***************************************************************************)
EXTENDS Integers, Sequences, FiniteSets, TLC

VARIABLES
    db,         \* table expenses: the set of rows
    seq,        \* sqlite_sequence of the table: the largest id ever assigned
    expenses,   \* useState: the snapshot last set by loadExpenses
    amount,     \* useState: text of the amount field
    category,   \* useState: text of the category field
    note,       \* useState: text of the note field
    editingId,  \* useState: the edit target, or NoEdit
    filter,     \* useState: the selector
    queue,      \* persistence calls issued and not yet executed, oldest first
    done,       \* persistence calls executed whose promise has not resumed yet
    now,        \* the clock, in hours since the epoch (UTC)
    tz,         \* the device's offset from UTC, in hours
    view        \* what the last render computed: filtered, total, catTotals

vars == <<db, seq, expenses, amount, category, note, editingId, filter,
          queue, done, now, tz, view>>

\* editingId when no row is being edited (useState(null)); ids start at 1.
NoEdit == 0

\* A nullable TEXT column: null, or a text.
SqlNull == [null |-> TRUE, text |-> <<>>]
SqlText(s) == [null |-> FALSE, text |-> s]

-----------------------------------------------------------------------------
(* Bounds of the model.                                                     *)

\* Rows the table ever holds (ids 1..MaxId are assigned, then inserts stop).
MaxId == 2
\* Persistence calls in flight at once (issued and not yet resumed).
MaxPending == 2
\* Length of the snapshots the date filter is checked on.
MaxFilterRecs == 1
\* Consecutive days the reference instant ranges over (one full week and more).
NowDays == 8
\* Consecutive record dates, starting one week before the first reference day.
RecDays == 15
\* Whole years a record may lie before those dates as well.
YearsBack == 1
\* Length of the snapshots the totals are checked on.
MaxTotalRecs == 3

-----------------------------------------------------------------------------
(* Date: the proleptic Gregorian calendar of ECMAScript's Date.             *)

HoursPerDay == 24

\* Day number (days since 1970-01-01) of the civil date y-m-d.
DaysFromCivil(y, m, d) ==
    LET yy  == IF m <= 2 THEN y - 1 ELSE y
        era == yy \div 400
        yoe == yy - era * 400
        mp  == IF m > 2 THEN m - 3 ELSE m + 9
        doy == (153 * mp + 2) \div 5 + d - 1
        doe == yoe * 365 + yoe \div 4 - yoe \div 100 + doy
    IN  era * 146097 + doe - 719468

\* The civil date of a day number.
CivilFromDays(n) ==
    LET z   == n + 719468
        era == z \div 146097
        doe == z - era * 146097
        yoe == (doe - doe \div 1460 + doe \div 36524 - doe \div 146096) \div 365
        doy == doe - (365 * yoe + yoe \div 4 - yoe \div 100)
        mp  == (5 * doy + 2) \div 153
        d   == doy - (153 * mp + 2) \div 5 + 1
        m   == IF mp < 10 THEN mp + 3 ELSE mp - 9
        y   == yoe + era * 400 + (IF m <= 2 THEN 1 ELSE 0)
    IN  [y |-> y, m |-> m, d |-> d]

\* new Date().toISOString().slice(0, 10): the UTC calendar date of instant t.
ToISODate(t) == CivilFromDays(t \div HoursPerDay)

\* new Date("YYYY-MM-DD"): a date-only string is read as midnight UTC.
ParseDate(s) == DaysFromCivil(s.y, s.m, s.d) * HoursPerDay

\* The local day number and local hour of instant t in a zone z hours east of UTC.
LocalDays(t, z) == (t + z) \div HoursPerDay
LocalHour(t, z) == (t + z) % HoursPerDay

\* Date.prototype.getDate, getDay, getMonth, getFullYear: local-time fields.
GetDate(t, z) == CivilFromDays(LocalDays(t, z)).d
GetDay(t, z) == (LocalDays(t, z) + 4) % 7
GetMonth(t, z) == CivilFromDays(LocalDays(t, z)).m - 1
GetFullYear(t, z) == CivilFromDays(LocalDays(t, z)).y

\* Date.prototype.setDate(n): day n of the local month (n <= 0 runs into the
\* months before), the local time of day kept.
SetDate(t, z, n) ==
    LET c == CivilFromDays(LocalDays(t, z))
    IN  (DaysFromCivil(c.y, c.m, 1) + n - 1) * HoursPerDay + LocalHour(t, z) - z

\* startWeek: today with its date moved back by getDay() days.
startWeek(t, z) == SetDate(t, z, GetDate(t, z) - GetDay(t, z))

-----------------------------------------------------------------------------
(* Number: IEEE 754 binary64 for the magnitudes in [2^-4, 2^4), which are   *)
(* all whole multiples of 2^-56, and zero.                                  *)

MantissaBits == 53
Limb == 2^30

Num(hi, lo) == [nan |-> FALSE, neg |-> FALSE, hi |-> hi, lo |-> lo]
NaN == [nan |-> TRUE, neg |-> FALSE, hi |-> 0, lo |-> 0]
Zero == Num(0, 0)

\* Round the exact value hi * 2^30 + lo (below 2^60) to 53 significant bits,
\* ties to even: `extra` is the number of bits it has beyond 53.
RoundNearestEven(hi, lo) ==
    LET extra == Cardinality({k \in (MantissaBits - 30)..29 : hi >= 2^k})
        q     == 2^extra
        r     == lo % q
        up    == q > 1 /\ (2 * r > q \/ (2 * r = q /\ (lo \div q) % 2 = 1))
        lo2   == lo - r + (IF up THEN q ELSE 0)
    IN  IF lo2 >= Limb THEN Num(hi + 1, lo2 - Limb) ELSE Num(hi, lo2)

\* x + y for two non-negative numbers: the exact sum, rounded once.
NumAdd(x, y) ==
    LET lo == x.lo + y.lo
    IN  RoundNearestEven(x.hi + y.hi + lo \div Limb, lo % Limb)

\* parseFloat on the texts the amount field is given.
parseFloat(s) ==
    CASE s = "0"   -> Zero
      [] s = "0.1" -> Num(6710886, 429496730)
      [] s = "0.2" -> Num(13421772, 858993460)
      [] s = "0.3" -> Num(20132659, 214748364)
      [] s = "1"   -> Num(67108864, 0)
      [] s = "2"   -> Num(134217728, 0)
      [] s = "-5"  -> [nan |-> FALSE, neg |-> TRUE, hi |-> 335544320, lo |-> 0]
      [] OTHER     -> NaN

isNaN(x) == x.nan
IsPositive(x) == ~x.nan /\ ~x.neg /\ (x.hi > 0 \/ x.lo > 0)
\* A number with no fractional part.
IsWhole(x) == ~x.nan /\ x.lo = 0 /\ x.hi % 2^26 = 0

\* String(x): the shortest text that reads back as x.
String(x) ==
    CASE x = parseFloat("0.1") -> "0.1"
      [] x = parseFloat("0.2") -> "0.2"
      [] x = parseFloat("0.3") -> "0.3"
      [] x = parseFloat("1")   -> "1"
      [] x = parseFloat("2")   -> "2"
      [] x = parseFloat("-5")  -> "-5"
      [] x = Zero              -> "0"
      [] OTHER                 -> "NaN"

-----------------------------------------------------------------------------
(* String: trim, and the integer-index test of property keys.               *)

WhiteSpace == {" "}
Digits == {"0", "1", "2", "3", "4", "5", "6", "7", "8", "9"}

RECURSIVE trimStart(_)
trimStart(s) ==
    IF s # <<>> /\ Head(s) \in WhiteSpace THEN trimStart(Tail(s)) ELSE s

RECURSIVE trimEnd(_)
trimEnd(s) ==
    IF s # <<>> /\ s[Len(s)] \in WhiteSpace
    THEN trimEnd(SubSeq(s, 1, Len(s) - 1)) ELSE s

trim(s) == trimEnd(trimStart(s))

DigitVal(c) ==
    CASE c = "0" -> 0 [] c = "1" -> 1 [] c = "2" -> 2 [] c = "3" -> 3
      [] c = "4" -> 4 [] c = "5" -> 5 [] c = "6" -> 6 [] c = "7" -> 7
      [] c = "8" -> 8 [] c = "9" -> 9

RECURSIVE ToUint(_)
ToUint(s) ==
    IF s = <<>> THEN 0
    ELSE 10 * ToUint(SubSeq(s, 1, Len(s) - 1)) + DigitVal(s[Len(s)])

\* A property key is an array index when it is the canonical decimal text of
\* an integer below 2^32 - 1 (here: of at most nine digits).
IsArrayIndex(s) ==
    /\ Len(s) \in 1..9
    /\ \A i \in 1..Len(s) : s[i] \in Digits
    /\ (Len(s) = 1 \/ s[1] # "0")

-----------------------------------------------------------------------------
(* The aggregation computed by each render.                                 *)

\* Mutant of passes: only the selector ALL lets every row pass.
passes_OnlyAll(e, f, t, z) ==
    LET d == ParseDate(e.date)
    IN  IF f = "ALL" THEN TRUE
        ELSE IF f = "WEEK" THEN d >= startWeek(t, z)
        ELSE IF f = "MONTH"
             THEN /\ GetMonth(d, z) = GetMonth(t, z)
                  /\ GetFullYear(d, z) = GetFullYear(t, z)
             ELSE FALSE

\* The callback of expenses.filter: does row e pass selector f at instant t?
passes(e, f, t, z) ==
    LET d == ParseDate(e.date)
    IN  IF f = "WEEK" THEN d >= startWeek(t, z)
        ELSE IF f = "MONTH"
             THEN /\ GetMonth(d, z) = GetMonth(t, z)
                  /\ GetFullYear(d, z) = GetFullYear(t, z)
             ELSE TRUE

\* Mutant of filtered: the rows that pass, last first.
RECURSIVE Reverse(_)
Reverse(s) == IF s = <<>> THEN <<>> ELSE Append(Reverse(Tail(s)), Head(s))
filtered_Reversed(exps, f, t, z) ==
    Reverse(SelectSeq(exps, LAMBDA e : passes(e, f, t, z)))

\* Array.prototype.filter: the rows that pass, in their order.
filtered(exps, f, t, z) == SelectSeq(exps, LAMBDA e : passes(e, f, t, z))

\* Number(e.amount): a REAL column comes back as a number.
Number(x) == x

\* filtered.reduce((sum, e) => sum + Number(e.amount), 0)
RECURSIVE total(_)
total(rows) ==
    IF rows = <<>> THEN Zero
    ELSE NumAdd(total(SubSeq(rows, 1, Len(rows) - 1)),
                Number(rows[Len(rows)].amount))

\* An object is the sequence of its own properties in creation order.
HasKey(obj, k) == \E i \in 1..Len(obj) : obj[i].key = k
Get(obj, k) == obj[CHOOSE i \in 1..Len(obj) : obj[i].key = k].val

\* acc[k] = v: an existing property keeps its place, a new one is created last.
Put(obj, k, v) ==
    IF HasKey(obj, k)
    THEN [i \in 1..Len(obj) |->
             IF obj[i].key = k THEN [key |-> k, val |-> v] ELSE obj[i]]
    ELSE Append(obj, [key |-> k, val |-> v])

\* Mutant of catTotals: acc[e.category] = Number(e.amount), nothing added up.
RECURSIVE catTotals_Overwrite(_)
catTotals_Overwrite(rows) ==
    IF rows = <<>> THEN <<>>
    ELSE LET acc == catTotals_Overwrite(SubSeq(rows, 1, Len(rows) - 1))
             e   == rows[Len(rows)]
         IN  Put(acc, e.category, Number(e.amount))

\* filtered.reduce((acc, e) => { acc[e.category] = (acc[e.category] || 0)
\*                                + Number(e.amount); return acc; }, {})
RECURSIVE catTotals(_)
catTotals(rows) ==
    IF rows = <<>> THEN <<>>
    ELSE LET acc == catTotals(SubSeq(rows, 1, Len(rows) - 1))
             e   == rows[Len(rows)]
             old == IF HasKey(acc, e.category) THEN Get(acc, e.category) ELSE Zero
         IN  Put(acc, e.category, NumAdd(old, Number(e.amount)))

\* The properties of obj whose keys are array indices, by ascending index.
RECURSIVE IndexProps(_, _)
IndexProps(obj, below) ==
    LET S == {i \in 1..Len(obj) :
                 IsArrayIndex(obj[i].key) /\ ToUint(obj[i].key) > below}
    IN  IF S = {} THEN <<>>
        ELSE LET i == CHOOSE j \in S :
                          \A k \in S : ToUint(obj[j].key) <= ToUint(obj[k].key)
             IN  <<obj[i]>> \o IndexProps(obj, ToUint(obj[i].key))

\* Object.entries / Object.keys: array-index keys first, by ascending index,
\* then the other keys in creation order.
Entries(obj) ==
    IndexProps(obj, -1) \o SelectSeq(obj, LAMBDA p : ~IsArrayIndex(p.key))

\* One render: the list shown and the summary shown.
Render(exps, f, t, z) ==
    LET rows == filtered(exps, f, t, z)
    IN  [filtered  |-> rows,
         total     |-> total(rows),
         catTotals |-> Entries(catTotals(rows))]

-----------------------------------------------------------------------------
(* The table and the persistence calls.                                     *)

Row(id, val, cat, nt, date) ==
    [id |-> id, amount |-> val, category |-> cat, note |-> nt, date |-> date]

\* The calls handed to the database: execAsync, getAllAsync and runAsync
\* with the statement's parameters.
CreateTable == [op |-> "create"]
SelectAll == [op |-> "select"]
Insert(val, cat, nt, date) ==
    [op |-> "insert", amount |-> val, category |-> cat, note |-> nt,
     date |-> date]
Update(val, cat, nt, id) ==
    [op |-> "update", amount |-> val, category |-> cat, note |-> nt, id |-> id]
Delete(id) == [op |-> "delete", id |-> id]

\* SELECT * FROM expenses ORDER BY id DESC
RECURSIVE OrderByIdDesc(_)
OrderByIdDesc(rows) ==
    IF rows = {} THEN <<>>
    ELSE LET r == CHOOSE x \in rows : \A y \in rows : y.id <= x.id
         IN  <<r>> \o OrderByIdDesc(rows \ {r})

\* INSERT INTO expenses (amount, category, note, date) VALUES (?, ?, ?, ?):
\* AUTOINCREMENT gives the row the id after the largest ever assigned.
ExecInsert(rows, last, c) ==
    rows \cup {Row(last + 1, c.amount, c.category, c.note, c.date)}

\* Mutant of ExecUpdate: the statement without its WHERE clause.
ExecUpdate_NoWhere(rows, c) ==
    {[r EXCEPT !.amount = c.amount, !.category = c.category, !.note = c.note] :
        r \in rows}

\* UPDATE expenses SET amount=?, category=?, note=? WHERE id=?
ExecUpdate(rows, c) ==
    {IF r.id = c.id
     THEN [r EXCEPT !.amount = c.amount, !.category = c.category,
                    !.note = c.note]
     ELSE r : r \in rows}

\* DELETE FROM expenses WHERE id=?
ExecDelete(rows, c) == {r \in rows : r.id # c.id}

\* Mutant of Continuation: remove does not call loadExpenses.
Continuation_NoReload(op) ==
    CASE op = "create" -> "load"
      [] op = "insert" -> "resetload"
      [] op = "update" -> "resetload"
      [] op = "delete" -> "none"
      [] op = "select" -> "set"

\* What the handler that awaited the call does when its promise resolves.
Continuation(op) ==
    CASE op = "create" -> "load"
      [] op = "insert" -> "resetload"
      [] op = "update" -> "resetload"
      [] op = "delete" -> "load"
      [] op = "select" -> "set"

Pending == Len(queue) + Len(done)

\* Inserts issued and not yet executed.
PendingInserts == Cardinality({i \in 1..Len(queue) : queue[i].op = "insert"})

\* The render that follows a state change.  The clock stands still within a
\* behaviour, so a render over the same snapshot and selector computes the
\* view again as it is.
ViewAfter(exps, f) ==
    IF exps = expenses /\ f = filter THEN view ELSE Render(exps, f, now, tz)

-----------------------------------------------------------------------------
(* The texts the form fields are given, and the selectors of the filter row. *)

AmountTexts == {"0", "2"}
CategoryTexts == {<<" ">>, <<"7">>}
NoteTexts == {<<"n">>}
Selectors == {"ALL", "WEEK", "MONTH"}

\* The instant the screen is opened at: Saturday 2024-03-09, 12:00 UTC.
OpenedAt == DaysFromCivil(2024, 3, 9) * HoursPerDay + 12

-----------------------------------------------------------------------------
(* The screen.                                                              *)

\* After the first render and its effect: setup() has issued CREATE TABLE.
\* The table is new, or holds a row an earlier session wrote.
Init ==
    /\ \/ db = {} /\ seq = 0
       \/ /\ db = {Row(1, parseFloat("2"), <<"7">>, SqlNull,
                       ToISODate(OpenedAt - HoursPerDay))}
          /\ seq = 1
    /\ expenses = <<>>
    /\ amount = ""
    /\ category = <<>>
    /\ note = <<>>
    /\ editingId = NoEdit
    /\ filter = "ALL"
    /\ queue = <<CreateTable>>
    /\ done = <<>>
    /\ now = OpenedAt
    /\ tz = 0
    /\ view = Render(<<>>, "ALL", OpenedAt, 0)

\* onChangeText of the three inputs.
setAmount(s) ==
    /\ amount' = s
    /\ view' = ViewAfter(expenses, filter)
    /\ UNCHANGED <<db, seq, expenses, category, note, editingId, filter,
                   queue, done, now, tz>>

setCategory(s) ==
    /\ category' = s
    /\ view' = ViewAfter(expenses, filter)
    /\ UNCHANGED <<db, seq, expenses, amount, note, editingId, filter,
                   queue, done, now, tz>>

setNote(s) ==
    /\ note' = s
    /\ view' = ViewAfter(expenses, filter)
    /\ UNCHANGED <<db, seq, expenses, amount, category, editingId, filter,
                   queue, done, now, tz>>

\* onPress of a filter button.
setFilter(key) ==
    /\ filter' = key
    /\ view' = ViewAfter(expenses, key)
    /\ UNCHANGED <<db, seq, expenses, amount, category, note, editingId,
                   queue, done, now, tz>>

\* Mutant of Accepts: the guard without val <= 0.
Accepts_AnySign(val, cat) == ~isNaN(val) /\ trim(cat) # <<>>

\* The guard of submit: isNaN(val) || val <= 0 || !category.trim() returns.
Accepts(val, cat) == ~isNaN(val) /\ IsPositive(val) /\ trim(cat) # <<>>

\* note.trim() || null
NoteOrNull(s) == IF trim(s) = <<>> THEN SqlNull ELSE SqlText(trim(s))

\* submit, up to its await: the call it hands to the database.
SubmitCall(val, cat, nt, eid, t) ==
    IF eid # NoEdit
    THEN Update(val, trim(cat), NoteOrNull(nt), eid)
    ELSE Insert(val, trim(cat), NoteOrNull(nt), ToISODate(t))

\* onPress of the Add Expense / Save Changes button.
submit ==
    LET val == parseFloat(amount)
    IN  /\ Pending < MaxPending
        /\ editingId = NoEdit => seq + PendingInserts < MaxId
        /\ IF Accepts(val, category)
           THEN queue' = Append(queue,
                                SubmitCall(val, category, note, editingId, now))
           ELSE queue' = queue
        /\ UNCHANGED <<db, seq, expenses, amount, category, note, editingId,
                       filter, done, now, tz, view>>

\* onPress of the delete mark of a listed row.
remove(id) ==
    /\ Pending < MaxPending
    /\ queue' = Append(queue, Delete(id))
    /\ UNCHANGED <<db, seq, expenses, amount, category, note, editingId,
                   filter, done, now, tz, view>>

\* onPress of Edit on a listed row.
startEdit(e) ==
    LET amt == String(e.amount)
        nt  == IF e.note.null THEN <<>> ELSE e.note.text
    IN  /\ editingId' = e.id
        /\ amount' = amt
        /\ category' = e.category
        /\ note' = nt
        /\ view' = ViewAfter(expenses, filter)
        /\ UNCHANGED <<db, seq, expenses, filter, queue, done, now, tz>>

\* onPress of Cancel Editing, which is shown while editingId is set.
reset ==
    /\ editingId # NoEdit
    /\ amount' = ""
    /\ category' = <<>>
    /\ note' = <<>>
    /\ editingId' = NoEdit
    /\ view' = ViewAfter(expenses, filter)
    /\ UNCHANGED <<db, seq, expenses, filter, queue, done, now, tz>>

\* The database executes the oldest call handed to it.
Exec ==
    /\ queue # <<>>
    /\ LET c == Head(queue)
       IN  /\ queue' = Tail(queue)
           /\ db' = CASE c.op = "insert" -> ExecInsert(db, seq, c)
                      [] c.op = "update" -> ExecUpdate(db, c)
                      [] c.op = "delete" -> ExecDelete(db, c)
                      [] OTHER -> db
           /\ seq' = IF c.op = "insert" THEN seq + 1 ELSE seq
           /\ done' = Append(done,
                  [call |-> c,
                   rows |-> IF c.op = "select" THEN OrderByIdDesc(db) ELSE <<>>])
    /\ UNCHANGED <<expenses, amount, category, note, editingId, filter,
                   now, tz, view>>

\* The oldest resolved promise resumes its handler: setup and remove call
\* loadExpenses; submit calls reset and loadExpenses; loadExpenses calls
\* setExpenses(rows).
Resume ==
    /\ done # <<>>
    /\ LET r == Head(done)
           k == Continuation(r.call.op)
       IN  /\ done' = Tail(done)
           /\ queue' = IF k \in {"load", "resetload"}
                       THEN Append(queue, SelectAll) ELSE queue
           /\ expenses' = IF k = "set" THEN r.rows ELSE expenses
           /\ IF k = "resetload"
              THEN /\ amount' = ""
                   /\ category' = <<>>
                   /\ note' = <<>>
                   /\ editingId' = NoEdit
              ELSE UNCHANGED <<amount, category, note, editingId>>
           /\ view' = ViewAfter(expenses', filter)
    /\ UNCHANGED <<db, seq, filter, now, tz>>

Listed == {view.filtered[i] : i \in 1..Len(view.filtered)}

Next ==
    \/ \E s \in AmountTexts : setAmount(s)
    \/ \E s \in CategoryTexts : setCategory(s)
    \/ \E s \in NoteTexts : setNote(s)
    \/ \E key \in Selectors : setFilter(key)
    \/ submit
    \/ \E e \in Listed : remove(e.id)
    \/ \E e \in Listed : startEdit(e)
    \/ reset
    \/ Exec
    \/ Resume

Spec == Init /\ [][Next]_vars

-----------------------------------------------------------------------------
(* The aggregation on its own: the screen is idle, and the snapshot, the    *)
(* selector, the reference instant and the time zone are drawn from bounded *)
(* sets; pressing a filter button renders again.                            *)

\* The snapshots of n rows, newest first as loadExpenses delivers them, with
\* amounts, categories and dates drawn from the given sets.
Snapshots(n, vals, cats, dates) ==
    {[i \in 1..n |-> Row(n + 1 - i, f[i][1], f[i][2], SqlNull, f[i][3])] :
        f \in [1..n -> vals \X cats \X dates]}

Idle(exps, f, t, z) ==
    /\ db = {exps[i] : i \in 1..Len(exps)}
    /\ seq = Len(exps)
    /\ expenses = exps
    /\ amount = ""
    /\ category = <<>>
    /\ note = <<>>
    /\ editingId = NoEdit
    /\ filter = f
    /\ queue = <<>>
    /\ done = <<>>
    /\ now = t
    /\ tz = z
    /\ view = Render(exps, f, t, z)

NextRender == \E key \in Selectors : setFilter(key)

\* Offsets from UTC, in hours: New York (EST), UTC, Tokyo.
TzOffsets == {-5, 0, 9}
\* Times of day (UTC) of the reference instant.
HoursOfDay == {0, 12, 23}
\* The first reference day, Thursday 2023-12-28: the days that follow cross a
\* Sunday, a month's end and a year's end.
FirstDay == DaysFromCivil(2023, 12, 28)

FilterNows ==
    {(FirstDay + i) * HoursPerDay + h : i \in 0..(NowDays - 1), h \in HoursOfDay}
FilterDates ==
    {CivilFromDays(FirstDay - 7 + i - 365 * k) :
        i \in 0..(RecDays - 1), k \in 0..YearsBack}

\* The selector before a button is pressed: ALL, as the screen opens with,
\* or a value no button sets, which the filter callback takes as ALL.
InitSelectors == {"ALL", "YEAR"}

InitFilter ==
    \E n \in 0..MaxFilterRecs :
      \E exps \in Snapshots(n, {parseFloat("2")}, {<<"b">>}, FilterDates) :
        \E f \in InitSelectors, t \in FilterNows, z \in TzOffsets :
          Idle(exps, f, t, z)

SpecFilter == InitFilter /\ [][NextRender]_vars

\* Wednesday 2024-03-13, 12:00 UTC; a date of that week, and one of the week
\* before in the same month.
TotalsNow == DaysFromCivil(2024, 3, 13) * HoursPerDay + 12
TotalsDates == {[y |-> 2024, m |-> 3, d |-> 12], [y |-> 2024, m |-> 3, d |-> 5]}
TotalsAmounts == {parseFloat(s) : s \in {"0.1", "0.2", "0.3", "2"}}
TotalsCategories == {<<"b">>, <<"7">>}

InitTotals ==
    \E n \in 0..MaxTotalRecs :
      \E exps \in Snapshots(n, TotalsAmounts, TotalsCategories, TotalsDates) :
        \E f \in InitSelectors :
          Idle(exps, f, TotalsNow, 0)

SpecTotals == InitTotals /\ [][NextRender]_vars

-----------------------------------------------------------------------------
(* Properties of the aggregation.                                           *)

\* Is row i of the snapshot among the rows shown?
Shown(i) == \E j \in 1..Len(view.filtered) : view.filtered[j] = expenses[i]

\* The calendar day of a row's date, and today's calendar day on the device.
DayOf(row) == DaysFromCivil(row.date.y, row.date.m, row.date.d)
Today == (now + tz) \div HoursPerDay
\* The most recent Sunday at or before today (1970-01-01 was a Thursday).
WeekStart == Today - ((Today + 4) % 7)

\* C1: with selector WEEK a row is shown if and only if its calendar date is
\* on or after the most recent Sunday at or before now, whatever the time of
\* day; that Sunday's own rows are shown.
C1_WeekByCalendarDate ==
    filter = "WEEK" =>
        \A i \in 1..Len(expenses) : Shown(i) <=> DayOf(expenses[i]) >= WeekStart

\* C2: with selector MONTH a row is shown if and only if its date lies in the
\* calendar month and calendar year of now.
C2_MonthByCalendarMonth ==
    filter = "MONTH" =>
        \A i \in 1..Len(expenses) :
            Shown(i) <=> /\ expenses[i].date.m = CivilFromDays(Today).m
                         /\ expenses[i].date.y = CivilFromDays(Today).y

\* The values of the summary, added up in the order they are listed.
RECURSIVE SumOfValues(_)
SumOfValues(entries) ==
    IF entries = <<>> THEN Zero
    ELSE NumAdd(SumOfValues(SubSeq(entries, 1, Len(entries) - 1)),
                entries[Len(entries)].val)

KeysListed == {view.catTotals[i].key : i \in 1..Len(view.catTotals)}
CategoriesShown == {view.filtered[i].category : i \in 1..Len(view.filtered)}

\* The keys of catTotals are exactly the categories of the rows shown, each
\* listed once, and no row shown gives total 0 and no key.
KeysAreCategoriesShown ==
    /\ KeysListed = CategoriesShown
    /\ Len(view.catTotals) = Cardinality(KeysListed)
    /\ view.filtered = <<>> => view.total = Zero /\ view.catTotals = <<>>

AmountsShownAreWhole ==
    \A i \in 1..Len(view.filtered) : IsWhole(view.filtered[i].amount)

RECURSIVE IsSubsequence(_, _)
IsSubsequence(s, t) ==
    IF s = <<>> THEN TRUE
    ELSE IF t = <<>> THEN FALSE
    ELSE IF Head(s) = Head(t) THEN IsSubsequence(Tail(s), Tail(t))
    ELSE IsSubsequence(s, Tail(t))

\* C4: the rows shown are a subsequence of the snapshot: rows of it, in its
\* order, none twice.
C4_FilteredIsSubsequence == IsSubsequence(view.filtered, expenses)

\* The first and the last of three rows are shown, the middle one is not.
C4_Witness ==
    /\ filter = "WEEK"
    /\ Len(expenses) = 3
    /\ view.filtered = <<expenses[1], expenses[3]>>

\* The amounts of the rows, added from zero in their order.
RECURSIVE SumOfAmounts(_)
SumOfAmounts(rows) ==
    IF rows = <<>> THEN Zero
    ELSE NumAdd(SumOfAmounts(SubSeq(rows, 1, Len(rows) - 1)),
                rows[Len(rows)].amount)

\* C5: with selector ALL, or any selector other than WEEK and MONTH, every
\* row is shown and total is the sum of all amounts.
C5_OtherSelectorsShowAll ==
    filter \notin {"WEEK", "MONTH"} =>
        /\ view.filtered = expenses
        /\ view.total = SumOfAmounts(expenses)

\* An unknown selector, over three rows of which WEEK would hide one.
C5_Witness ==
    /\ filter = "YEAR"
    /\ Len(view.filtered) = 3
    /\ \E i \in 1..3 : DayOf(expenses[i]) < WeekStart

\* The categories of the rows in the order of their first occurrence.
RECURSIVE FirstOccurrences(_)
FirstOccurrences(rows) ==
    IF rows = <<>> THEN <<>>
    ELSE LET before == FirstOccurrences(SubSeq(rows, 1, Len(rows) - 1))
             c      == rows[Len(rows)].category
         IN  IF \E i \in 1..Len(before) : before[i] = c
             THEN before ELSE Append(before, c)

\* C6: catTotals lists the categories in the order of their first occurrence
\* among the rows shown, labels made of digits included.
C6_FirstOccurrenceOrder ==
    [i \in 1..Len(view.catTotals) |-> view.catTotals[i].key]
        = FirstOccurrences(view.filtered)

-----------------------------------------------------------------------------
(* Properties of the screen.                                                *)

\* Every render is over the current snapshot and selector.
ViewIsCurrent == view = Render(expenses, filter, now, tz)

Idle0 == queue = <<>> /\ done = <<>>

\* C7: every row of the table has amount > 0 and a category that is not
\* empty after trimming, and no two rows share an id.
C7_RowsAreValid ==
    /\ \A r \in db : IsPositive(r.amount) /\ trim(r.category) # <<>>
    /\ \A r1, r2 \in db : r1.id = r2.id => r1 = r2

\* Two rows, one of them saved from the form with a note, nothing pending,
\* and "0" typed in the amount field, which the guard of submit turns away.
C7_Witness ==
    /\ Cardinality(db) = 2
    /\ \E r \in db : ~r.note.null
    /\ amount = "0"
    /\ Idle0

\* The database executes an UPDATE that submit issued.
ExecutesUpdate ==
    /\ queue # <<>>
    /\ Head(queue).op = "update"
    /\ queue' = Tail(queue)

\* C8: a submit in edit mode changes at most the amount, category and note
\* of the row whose id is the edit target: every row keeps its id and date,
\* every other row is unchanged, and the number of rows is unchanged.
C8_EditChangesOnlyTarget ==
    [][ExecutesUpdate =>
         /\ Cardinality(db') = Cardinality(db)
         /\ \A r \in db :
              /\ r.id # Head(queue).id => r \in db'
              /\ \E r2 \in db' : r2.id = r.id /\ r2.date = r.date]_vars

\* An UPDATE has just run on a row written on an earlier day, next to
\* another row, and has given the target a note.
C8_Witness ==
    /\ done # <<>>
    /\ Head(done).call.op = "update"
    /\ Cardinality(db) = 2
    /\ \E r \in db : /\ r.id = Head(done).call.id
                     /\ ~r.note.null
                     /\ r.date # ToISODate(now)

\* C9: once no persistence call is pending, the snapshot is the whole table,
\* ordered by id descending.
C9_SnapshotIsTable ==
    Idle0 =>
        /\ {expenses[i] : i \in 1..Len(expenses)} = db
        /\ Len(expenses) = Cardinality(db)
        /\ \A i, j \in 1..Len(expenses) : i < j => expenses[i].id > expenses[j].id

\* Nothing is pending after every id was assigned and a row was deleted:
\* the snapshot shows the one row left.
C9_Witness ==
    /\ Idle0
    /\ seq = MaxId
    /\ Len(expenses) = MaxId - 1
    /\ Len(expenses) > 0

\* C10: while the form is in edit mode, editingId is the id of a row of the
\* table.
C10_EditTargetExists ==
    editingId # NoEdit => \E r \in db : r.id = editingId

====
